---- MODULE Spec2Model ----
(***************************************************************************)
(* Model of lib/ansible/modules/cloud/amazon/iam_cert.py: one sequential   *)
(* invocation after another of the iam_cert module (main -> cert_action -> *)
(* dup_check) against the server certificates held by the IAM service.     *)
(*                                                                         *)
(* Python values: a certificate name, a path and a parameter that is None  *)
(* are strings (None is the string "None", which is no certificate name of *)
(* the model); a PEM text (cert, key) is a sequence of one-character       *)
(* strings, and a PEM parameter that is None is the empty sequence, which  *)
(* is no body of the model.  cert_chain, the certificate id and the dates  *)
(* are passed through by the code without being inspected; they are left   *)
(* out of the payloads.                                                    *)
(***************************************************************************)
EXTENDS Integers, Sequences, FiniteSets, TLC

VARIABLES certs, certs0, pc, params, orig_cert_names, orig_cert_bodies, calls, result,
          last_deleted

vars == <<certs, certs0, pc, params, orig_cert_names, orig_cert_bodies, calls, result,
          last_deleted>>

\* The account holds at most MaxCerts server certificates.
MaxCerts == 2

None == "None"
NoText == <<>>

\* The certificate names of the model, in the order list_server_certificates returns them.
NameOrder == <<"alpha", "beta", "gamma">>
CertNames == {NameOrder[i] : i \in 1..Len(NameOrder)}

CR == "\r"
\* Certificate bodies: two that differ only by a carriage return, and a third.
Bodies == {<<"a">>, <<"a", CR>>, <<"b">>}
Keys == {<<"k">>}
Paths == {"/", "/p/"}

Range(s) == {s[i] : i \in 1..Len(s)}

\* str.replace('\r', '')
StripCR(text) == SelectSeq(text, LAMBDA ch : ch # CR)

\* list.index: the first position of x in s (the caller has checked x is in s)
Index(s, x) == CHOOSE i \in 1..Len(s) : s[i] = x /\ \A j \in 1..(i - 1) : s[j] # x

--------------------------------------------------------------------------
(* The IAM service *)

CertRec == [body : Bodies, path : Paths]

Inventories == UNION {[S -> CertRec] : S \in {T \in SUBSET CertNames : Cardinality(T) <= MaxCerts}}

\* main, lines 272-279: the names and the bodies of the stored certificates
ListNames(inv) == SelectSeq(NameOrder, LAMBDA n : n \in DOMAIN inv)
ListBodies(inv) == [i \in 1..Len(ListNames(inv)) |-> inv[ListNames(inv)[i]].body]

\* A mutating call to the service, as the code issues it.
UploadCall(name, cert, key, cpath) ==
    [op |-> "upload", name |-> name, new_name |-> None, new_path |-> None,
     cert |-> cert, key |-> key, path |-> cpath]
UpdateCall(name, new_name, new_path) ==
    [op |-> "update", name |-> name, new_name |-> new_name, new_path |-> new_path,
     cert |-> NoText, key |-> NoText, path |-> None]
DeleteCall(name) ==
    [op |-> "delete", name |-> name, new_name |-> None, new_path |-> None,
     cert |-> NoText, key |-> NoText, path |-> None]

\* Whether the service can carry the call out on inventory inv.
CanUpload(inv, name) ==
    name \in CertNames /\ name \notin DOMAIN inv /\ Cardinality(DOMAIN inv) < MaxCerts
CanUpdate(inv, name, new_name) ==
    name \in DOMAIN inv /\ (new_name = None \/ new_name \notin DOMAIN inv)
CanGet(inv, name) == name \in DOMAIN inv

\* The inventory after the call succeeded.
AfterUpload(inv, name, cert, cpath) ==
    [n \in DOMAIN inv \cup {name} |->
        IF n = name THEN [body |-> cert, path |-> cpath] ELSE inv[n]]
AfterUpdate(inv, name, new_name, new_path) ==
    LET target == IF new_name = None THEN name ELSE new_name
        moved == [body |-> inv[name].body,
                  path |-> IF new_path = None THEN inv[name].path ELSE new_path]
    IN  [n \in (DOMAIN inv \ {name}) \cup {target} |->
            IF n = target THEN moved ELSE inv[n]]
AfterDelete(inv, name) == [n \in DOMAIN inv \ {name} |-> inv[n]]

--------------------------------------------------------------------------
(* dup_check, lines 143-175 *)

\* The verdicts of dup_check: it returns update (True or False), or ends the
\* invocation through module.fail_json, or raises.
Verdict(ret, name) == [ret |-> ret, name |-> name]

\* lines 146-168: the loop over [name, new_name], from position i on.
RECURSIVE DupLoop(_, _, _, _, _)
DupLoop(i, both, cert, names, bodies) ==
    IF i > Len(both) THEN Verdict("upload", None)
    ELSE LET i_name == both[i] IN
         IF i_name = None THEN DupLoop(i + 1, both, cert, names, bodies)
         ELSE IF cert # NoText
              THEN IF i_name \notin Range(names)
                   \* list.index raises ValueError, which "except NameError" does not catch
                   THEN Verdict("ValueError", i_name)
                   ELSE LET c_index == Index(names, i_name)
                            slug_cert == StripCR(cert)
                            slug_orig_cert_bodies == StripCR(bodies[c_index])
                        IN  IF slug_orig_cert_bodies = slug_cert
                            THEN Verdict("update", i_name)
                            ELSE Verdict("conflict", i_name)
              ELSE Verdict("update", i_name)

\* dup_check with the duplicate test of line 169 done on CR-stripped bodies
dup_check_strip_dup(name, new_name, cert, names, bodies, dup_ok) ==
    IF name \in Range(names) \/ new_name \in Range(names)
    THEN DupLoop(1, <<name, new_name>>, cert, names, bodies)
    ELSE IF (\E i \in 1..Len(bodies) : StripCR(bodies[i]) = StripCR(cert)) /\ ~dup_ok
         THEN Verdict("duplicate",
                      names[CHOOSE i \in 1..Len(bodies) : StripCR(bodies[i]) = StripCR(cert)])
         ELSE Verdict("upload", None)

\* dup_check with the loop of line 146 running over [new_name] alone
dup_check_new_name_only(name, new_name, cert, names, bodies, dup_ok) ==
    IF name \in Range(names) \/ new_name \in Range(names)
    THEN DupLoop(2, <<name, new_name>>, cert, names, bodies)
    ELSE IF cert \in Range(bodies) /\ ~dup_ok
         THEN Verdict("duplicate", names[Index(bodies, cert)])
         ELSE Verdict("upload", None)

\* dup_check with line 173 reporting the first stored name, whatever its body
dup_check_first_name(name, new_name, cert, names, bodies, dup_ok) ==
    IF name \in Range(names) \/ new_name \in Range(names)
    THEN DupLoop(1, <<name, new_name>>, cert, names, bodies)
    ELSE IF cert \in Range(bodies) /\ ~dup_ok
         THEN Verdict("duplicate", names[1])
         ELSE Verdict("upload", None)

\* dup_check with line 169 not reading dup_ok: a duplicate body is always let through
dup_check_dup_ok(name, new_name, cert, names, bodies, dup_ok) ==
    IF name \in Range(names) \/ new_name \in Range(names)
    THEN DupLoop(1, <<name, new_name>>, cert, names, bodies)
    ELSE Verdict("upload", None)

dup_check(name, new_name, cert, names, bodies, dup_ok) ==
    IF name \in Range(names) \/ new_name \in Range(names)
    THEN DupLoop(1, <<name, new_name>>, cert, names, bodies)
    ELSE IF cert \in Range(bodies) /\ ~dup_ok
         THEN Verdict("duplicate", names[Index(bodies, cert)])
         ELSE Verdict("upload", None)

--------------------------------------------------------------------------
(* What an invocation reports: module.exit_json, module.fail_json, or an   *)
(* exception nothing catches.  keys is the set of keyword arguments of the *)
(* payload; a field outside keys holds its default.                        *)

NoResult ==
    [kind |-> "none", error |-> "none", keys |-> {}, changed |-> FALSE,
     name |-> None, original_name |-> None, new_name |-> None, deleted_cert |-> None,
     cert_path |-> None, original_path |-> None, new_path |-> None,
     cert_body |-> NoText, msg_name |-> None, debug |-> <<>>]

\* an exception that leaves main uncaught
Crash(error) == [NoResult EXCEPT !.kind = "crash", !.error = error]

\* main, line 243 and line 253: module.fail_json(msg=...)
FailMsg(error) == [NoResult EXCEPT !.kind = "fail", !.error = error, !.keys = {"msg"}]

\* dup_check, lines 163-165 and 172-173: module.fail_json(changed=False, msg=... % name)
FailNamed(error, name) ==
    [NoResult EXCEPT !.kind = "fail", !.error = error, !.keys = {"changed", "msg"},
                     !.changed = FALSE, !.msg_name = name]

\* main, lines 289-290: module.fail_json(changed=changed, msg=str(err), debug=[cert,key])
FailRemote(cert, key) ==
    [NoResult EXCEPT !.kind = "fail", !.error = "RemoteServiceError",
                     !.keys = {"changed", "msg", "debug"}, !.changed = FALSE,
                     !.debug = <<cert, key>>]

\* main without lines 280-283
keep_target(new, cur) == new

\* main, lines 280-283: a target equal to the current value is no target
unset_if_same(new, cur) == IF new = cur THEN None ELSE new

\* The locals of main; given_new_name and given_new_path are the new_name and
\* new_path parameters as the caller passed them.
NoParams ==
    [state |-> "none", name |-> None, path |-> None, new_name |-> None,
     new_path |-> None, cert |-> NoText, key |-> NoText, dup_ok |-> FALSE,
     given_new_name |-> None, given_new_path |-> None]

\* The connection and listing outcomes of main before cert_action is called.
Envs == {"ok", "no_boto", "no_auth", "list_error"}

--------------------------------------------------------------------------
Init ==
    /\ certs \in Inventories
    /\ certs0 = certs
    /\ pc = "idle"
    /\ params = NoParams
    /\ orig_cert_names = <<>>
    /\ orig_cert_bodies = <<>>
    /\ calls = <<>>
    /\ result = NoResult
    /\ last_deleted = None

\* main, lines 221-290, up to the call of cert_action
Main(DupChoices) ==
    /\ pc = "idle"
    /\ \E state \in {"present", "absent"}, name \in CertNames \cup {None},
          path \in Paths, new_name \in CertNames \cup {None},
          new_path \in Paths \cup {None}, cert \in Bodies \cup {NoText},
          key \in Keys \cup {NoText}, dup_ok \in DupChoices, env \in Envs :
        LET p == [state |-> state, name |-> name, path |-> path,
                  new_name |-> unset_if_same(new_name, name),
                  new_path |-> unset_if_same(new_path, path),
                  \* lines 262-270: state=absent sets key=cert=None
                  cert |-> IF state = "present" THEN cert ELSE NoText,
                  key |-> IF state = "present" THEN key ELSE NoText,
                  dup_ok |-> dup_ok,
                  given_new_name |-> new_name, given_new_path |-> new_path]
            listed == env \in {"ok"}
        IN  /\ params' = p
            /\ certs0' = certs
            /\ orig_cert_names' = IF listed THEN ListNames(certs) ELSE <<>>
            /\ orig_cert_bodies' = IF listed THEN ListBodies(certs) ELSE <<>>
            /\ last_deleted' = IF state = "absent" /\ name = last_deleted
                               THEN last_deleted ELSE None
            /\ IF env = "no_boto"
               THEN pc' = "done" /\ result' = FailMsg("BotoRequired")
               ELSE IF env = "no_auth"
               THEN pc' = "done" /\ result' = FailMsg("MissingCredentialsError")
               ELSE IF env = "list_error"
               THEN pc' = "done" /\ result' = Crash("BotoServerError")
               \* lines 263-266 leave cert or key unbound; line 287 reads them
               ELSE IF state = "present" /\ (cert = NoText \/ key = NoText)
               THEN pc' = "done" /\ result' = Crash("UnboundLocalError")
               ELSE pc' = "cert_action" /\ result' = NoResult
    /\ UNCHANGED <<certs, calls>>

\* cert_action, lines 180-182, when dup_check fails or raises
PresentRejected ==
    /\ pc = "cert_action"
    /\ params.state = "present"
    /\ LET v == dup_check(params.name, params.new_name, params.cert,
                          orig_cert_names, orig_cert_bodies, params.dup_ok)
       IN  /\ v.ret \in {"conflict", "duplicate", "ValueError"}
           /\ result' = IF v.ret = "conflict" THEN FailNamed("ConflictError", v.name)
                        ELSE IF v.ret = "duplicate"
                        THEN FailNamed("DuplicateContentError", v.name)
                        ELSE Crash("ValueError")
    /\ pc' = "done"
    /\ UNCHANGED <<certs, certs0, params, orig_cert_names, orig_cert_bodies, calls,
                   last_deleted>>

\* update_args with line 187 passing the new name alone
update_args_name_only(name, new_name, new_path) ==
    IF new_name # None THEN <<UpdateCall(name, new_name, None)>>
    ELSE IF new_path # None THEN <<UpdateCall(name, None, new_path)>>
    ELSE <<>>

\* cert_action, lines 186-205: the arguments of update_server_cert, none in the else branch
update_args(name, new_name, new_path) ==
    IF new_name # None /\ new_path # None THEN <<UpdateCall(name, new_name, new_path)>>
    ELSE IF new_name # None /\ new_path = None THEN <<UpdateCall(name, new_name, None)>>
    ELSE IF new_name = None /\ new_path # None THEN <<UpdateCall(name, None, new_path)>>
    ELSE <<>>

\* cert_action, lines 188-205: the payload of exit_json after an update
update_payload(name, new_name, new_path, opath, ocert) ==
    IF new_name # None /\ new_path # None
    THEN [NoResult EXCEPT !.kind = "exit", !.changed = TRUE,
             !.keys = {"changed", "original_name", "new_name", "original_path",
                       "new_path", "cert_body", "upload_date", "expiration_date"},
             !.original_name = name, !.new_name = new_name,
             !.original_path = opath, !.new_path = new_path, !.cert_body = ocert]
    ELSE IF new_name # None /\ new_path = None
    THEN [NoResult EXCEPT !.kind = "exit", !.changed = TRUE,
             !.keys = {"changed", "original_name", "new_name", "cert_path",
                       "cert_body", "upload_date", "expiration_date"},
             !.original_name = name, !.new_name = new_name,
             !.cert_path = opath, !.cert_body = ocert]
    ELSE IF new_name = None /\ new_path # None
    THEN [NoResult EXCEPT !.kind = "exit", !.changed = TRUE,
             !.keys = {"changed", "name", "original_path", "new_path",
                       "cert_body", "upload_date", "expiration_date"},
             !.name = new_name,
             !.original_path = opath, !.new_path = new_path, !.cert_body = ocert]
    ELSE [NoResult EXCEPT !.kind = "exit", !.changed = FALSE,
             !.keys = {"changed", "name", "cert_path", "cert_body", "upload_date",
                       "expiration_date", "msg"},
             !.name = name, !.cert_path = opath, !.cert_body = ocert]

\* cert_action, lines 183-205: dup_check returned update=True
PresentUpdate ==
    /\ pc = "cert_action"
    /\ params.state = "present"
    /\ dup_check(params.name, params.new_name, params.cert,
                 orig_cert_names, orig_cert_bodies, params.dup_ok).ret = "update"
    /\ \E meta_ok, update_ok \in BOOLEAN :
        LET name == params.name
            issued == update_args(name, params.new_name, params.new_path)
        IN  IF ~(meta_ok /\ CanGet(certs, name))
            \* cert_meta raises BotoServerError
            THEN /\ result' = FailRemote(params.cert, params.key)
                 /\ UNCHANGED <<certs, calls>>
            ELSE /\ calls' = issued
                 /\ IF issued = <<>>
                    THEN /\ result' = update_payload(name, params.new_name, params.new_path,
                                                     certs[name].path, certs[name].body)
                         /\ UNCHANGED certs
                    ELSE IF update_ok /\ CanUpdate(certs, name, params.new_name)
                    THEN /\ certs' = AfterUpdate(certs, name, params.new_name, params.new_path)
                         /\ result' = update_payload(name, params.new_name, params.new_path,
                                                     certs[name].path, certs[name].body)
                    ELSE /\ result' = FailRemote(params.cert, params.key)
                         /\ UNCHANGED certs
    /\ pc' = "done"
    /\ UNCHANGED <<certs0, params, orig_cert_names, orig_cert_bodies, last_deleted>>

\* cert_action, lines 206-211: dup_check returned update=False
PresentUpload ==
    /\ pc = "cert_action"
    /\ params.state = "present"
    /\ dup_check(params.name, params.new_name, params.cert,
                 orig_cert_names, orig_cert_bodies, params.dup_ok).ret = "upload"
    /\ \E upload_ok, meta_ok \in BOOLEAN :
        LET name == params.name IN
        /\ calls' = <<UploadCall(name, params.cert, params.key, params.path)>>
        /\ IF upload_ok /\ CanUpload(certs, name)
           THEN /\ certs' = AfterUpload(certs, name, params.cert, params.path)
                /\ result' = IF meta_ok
                             THEN [NoResult EXCEPT !.kind = "exit", !.changed = TRUE,
                                      !.keys = {"changed", "name", "cert_path", "cert_body",
                                                "upload_date", "expiration_date"},
                                      !.name = name, !.cert_path = certs'[name].path,
                                      !.cert_body = certs'[name].body]
                             ELSE FailRemote(params.cert, params.key)
           ELSE /\ result' = FailRemote(params.cert, params.key)
                /\ UNCHANGED certs
    /\ pc' = "done"
    /\ UNCHANGED <<certs0, params, orig_cert_names, orig_cert_bodies, last_deleted>>

\* cert_action with line 213 not looking at the inventory
absent_always(name, names) == TRUE

\* cert_action, line 213: whether state=absent deletes
absent_deletes(name, names) == name \in Range(names)

\* cert_action, lines 212-216
AbsentDelete ==
    /\ pc = "cert_action"
    /\ params.state = "absent"
    /\ absent_deletes(params.name, orig_cert_names)
    /\ \E delete_ok \in BOOLEAN :
        /\ calls' = <<DeleteCall(params.name)>>
        /\ IF delete_ok /\ CanGet(certs, params.name)
           THEN /\ certs' = AfterDelete(certs, params.name)
                /\ result' = [NoResult EXCEPT !.kind = "exit", !.changed = TRUE,
                                 !.keys = {"changed", "deleted_cert"},
                                 !.deleted_cert = params.name]
           ELSE /\ result' = FailRemote(params.cert, params.key)
                /\ UNCHANGED certs
    /\ pc' = "done"
    /\ UNCHANGED <<certs0, params, orig_cert_names, orig_cert_bodies, last_deleted>>

\* cert_action, lines 217-219
AbsentNoop ==
    /\ pc = "cert_action"
    /\ params.state = "absent"
    /\ ~absent_deletes(params.name, orig_cert_names)
    /\ result' = [NoResult EXCEPT !.kind = "exit", !.changed = FALSE,
                     !.keys = {"changed", "msg"}, !.msg_name = params.name]
    /\ pc' = "done"
    /\ UNCHANGED <<certs, certs0, params, orig_cert_names, orig_cert_bodies, calls,
                   last_deleted>>

\* The process ends; the next invocation starts from nothing but the service's
\* inventory.  last_deleted remembers the name this invocation deleted, and
\* certs0 is the inventory as it was when the running invocation started.
Return ==
    /\ pc = "done"
    /\ pc' = "idle"
    /\ last_deleted' = IF result.kind = "exit" /\ "deleted_cert" \in result.keys
                       THEN result.deleted_cert ELSE None
    /\ params' = NoParams
    /\ orig_cert_names' = <<>>
    /\ orig_cert_bodies' = <<>>
    /\ calls' = <<>>
    /\ result' = NoResult
    /\ certs0' = certs
    /\ UNCHANGED certs

CertAction ==
    \/ PresentRejected
    \/ PresentUpdate
    \/ PresentUpload
    \/ AbsentDelete
    \/ AbsentNoop

Next ==
    \/ Main(BOOLEAN)
    \/ CertAction
    \/ Return

Spec == Init /\ [][Next]_vars

\* Sequential invocations that all pass dup_ok=False, on an inventory that
\* starts with no body stored twice.
NoDuplicateBodies(inv) ==
    \A n, m \in DOMAIN inv : n # m => inv[n].body # inv[m].body

InitNoDup == Init /\ NoDuplicateBodies(certs)

NextNoDup ==
    \/ Main({FALSE})
    \/ CertAction
    \/ Return

SpecNoDup == InitNoDup /\ [][NextNoDup]_vars

--------------------------------------------------------------------------
(* Properties *)

\* The invocation is over and cert_action was called: the connection and the
\* listing succeeded and, for state=present, cert and key were supplied.
Called ==
    /\ pc = "done"
    /\ ~(result.kind = "crash" /\ result.error \in {"BotoServerError", "UnboundLocalError"})
    /\ result.error \notin {"BotoRequired", "MissingCredentialsError"}

Present == Called /\ params.state = "present"
Absent == Called /\ params.state = "absent"

InInventory(n) == n \in Range(orig_cert_names)
StoredBody(n) == orig_cert_bodies[Index(orig_cert_names, n)]
SameBodyModuloCR(n) == StripCR(StoredBody(n)) = StripCR(params.cert)
RemoteFailed == result.kind = "fail" /\ result.error = "RemoteServiceError"
Reports(k) == result.kind = "exit" /\ k \in result.keys

\* C1: no failure payload an invocation reports contains the private key that
\* was supplied.
C1_NoKeyInFailure ==
    (pc = "done" /\ result.kind = "fail" /\ params.key # NoText)
        => \A i \in 1..Len(result.debug) : result.debug[i] # params.key

\* C2 as stated: a name that is not in the inventory and a body equal to no
\* stored body give an upload and changed=true when the remote calls succeed,
\* whatever new_name, new_path and dup_ok are.
C2_CreateWhateverTargets ==
    (Present /\ ~InInventory(params.name) /\ params.cert \notin Range(orig_cert_bodies))
        => \/ RemoteFailed
           \/ /\ calls = <<UploadCall(params.name, params.cert, params.key, params.path)>>
              /\ Reports("changed") /\ result.changed

\* C2 amended: when moreover new_name is not a name of the inventory, exactly
\* the upload of name, cert, key and path is issued, and unless a remote call
\* fails the invocation reports changed=true with the stored path and body.
C2_Create ==
    (Present /\ ~InInventory(params.name) /\ ~InInventory(params.new_name)
             /\ params.cert \notin Range(orig_cert_bodies))
        => /\ calls = <<UploadCall(params.name, params.cert, params.key, params.path)>>
           /\ \/ RemoteFailed
              \/ /\ Reports("changed") /\ result.changed
                 /\ Reports("name") /\ result.name = params.name
                 /\ Reports("cert_path") /\ result.cert_path = params.path
                 /\ Reports("cert_body") /\ result.cert_body = params.cert
                 /\ params.name \in DOMAIN certs
                 /\ certs[params.name] = [body |-> params.cert, path |-> params.path]

C2_Witness ==
    /\ Present /\ ~InInventory(params.name) /\ ~InInventory(params.new_name)
    /\ params.cert \notin Range(orig_cert_bodies)
    /\ params.new_name # None /\ params.new_path # None
    /\ \E i \in 1..Len(orig_cert_bodies) : StripCR(orig_cert_bodies[i]) = StripCR(params.cert)
    /\ Reports("changed") /\ result.changed

\* C3: a name of the inventory stored with a body that differs from cert once
\* carriage returns are removed fails with ConflictError naming it, and no
\* mutating call is issued, whatever new_name, new_path and dup_ok are.
C3_Conflict ==
    (Present /\ InInventory(params.name) /\ ~SameBodyModuloCR(params.name))
        => /\ result.kind = "fail" /\ result.error = "ConflictError"
           /\ result.msg_name = params.name
           /\ calls = <<>>
           /\ certs = certs0

C3_Witness ==
    /\ Present /\ InInventory(params.name) /\ ~SameBodyModuloCR(params.name)
    /\ InInventory(params.new_name) /\ SameBodyModuloCR(params.new_name)
    /\ params.new_path # None /\ params.dup_ok
    /\ result.error = "ConflictError"

\* C4 as stated: a name not in the inventory, a body identical to a stored
\* one and dup_ok=False fail with DuplicateContentError, whatever new_name is.
C4_DuplicateWhateverTargets ==
    (Present /\ ~InInventory(params.name) /\ params.cert \in Range(orig_cert_bodies)
             /\ ~params.dup_ok)
        => /\ result.kind = "fail" /\ result.error = "DuplicateContentError"
           /\ calls = <<>>

\* C4 amended: when moreover new_name is not a name of the inventory, the
\* invocation fails with DuplicateContentError naming a stored certificate
\* whose body is cert, and no mutating call is issued.
C4_Duplicate ==
    (Present /\ ~InInventory(params.name) /\ ~InInventory(params.new_name)
             /\ params.cert \in Range(orig_cert_bodies) /\ ~params.dup_ok)
        => /\ result.kind = "fail" /\ result.error = "DuplicateContentError"
           /\ InInventory(result.msg_name)
           /\ result.msg_name # params.name
           /\ StoredBody(result.msg_name) = params.cert
           /\ calls = <<>>
           /\ certs = certs0

C4_Witness ==
    /\ Present /\ ~InInventory(params.name) /\ ~InInventory(params.new_name)
    /\ params.name # None /\ params.new_name # None
    /\ params.cert \in Range(orig_cert_bodies) /\ ~params.dup_ok
    /\ params.new_path # None
    /\ result.error = "DuplicateContentError"
    /\ InInventory(result.msg_name)

\* C5: a name of the inventory stored with cert's body (carriage returns
\* removed from both) and no new_name or new_path other than the current name
\* and path give changed=false, no mutating call and an unchanged inventory.
C5_NoChange ==
    (Present /\ InInventory(params.name) /\ SameBodyModuloCR(params.name)
             /\ params.given_new_name \in {None, params.name}
             /\ params.given_new_path \in {None, params.path})
        => /\ result.kind \in {"exit", "fail"}
           /\ "changed" \in result.keys /\ ~result.changed
           /\ calls = <<>>
           /\ certs = certs0

C5_Witness ==
    /\ Present /\ InInventory(params.name) /\ SameBodyModuloCR(params.name)
    /\ StoredBody(params.name) # params.cert
    /\ params.given_new_name = params.name
    /\ params.given_new_path = params.path
    /\ Reports("changed") /\ ~result.changed

\* C6: state=absent for a name of the inventory issues exactly one delete and,
\* the delete succeeding, reports changed=true and leaves the name out of the
\* inventory; for a name not in the inventory it issues nothing and reports
\* changed=false; and the invocation that follows a successful delete of the
\* same name reports changed=false and issues nothing.
C6_AbsentTwice ==
    Absent
        => /\ InInventory(params.name)
                => /\ calls = <<DeleteCall(params.name)>>
                   /\ \/ RemoteFailed /\ certs = certs0
                      \/ /\ Reports("changed") /\ result.changed
                         /\ params.name \notin DOMAIN certs
           /\ ~InInventory(params.name)
                => /\ calls = <<>>
                   /\ Reports("changed") /\ ~result.changed
                   /\ certs = certs0
           /\ (last_deleted # None /\ last_deleted = params.name)
                => /\ calls = <<>>
                   /\ Reports("changed") /\ ~result.changed

C6_Witness ==
    /\ Absent
    /\ last_deleted # None /\ last_deleted = params.name
    /\ Reports("changed") /\ ~result.changed
    /\ DOMAIN certs # {}

\* C7: an update of a certificate stored under name with cert's body issues one
\* update_server_cert call carrying exactly the targets that are set, and
\* reports changed=true with the original and the new value of each target that
\* is set; when a remote call fails nothing but that call has been issued.
C7_Update ==
    (Present /\ InInventory(params.name) /\ SameBodyModuloCR(params.name)
             /\ (params.new_name # None \/ params.new_path # None))
        => LET call == [op |-> "update", name |-> params.name,
                        new_name |-> params.new_name, new_path |-> params.new_path,
                        cert |-> NoText, key |-> NoText, path |-> None]
           IN  \/ RemoteFailed /\ calls \in {<<>>, <<call>>} /\ certs = certs0
               \/ /\ calls = <<call>>
                  /\ Reports("changed") /\ result.changed
                  /\ params.new_name # None
                        => /\ Reports("original_name") /\ result.original_name = params.name
                           /\ Reports("new_name") /\ result.new_name = params.new_name
                           /\ params.new_name \in DOMAIN certs
                           /\ params.name \notin DOMAIN certs
                  /\ params.new_path # None
                        => /\ Reports("original_path")
                           /\ result.original_path = certs0[params.name].path
                           /\ Reports("new_path") /\ result.new_path = params.new_path
                  /\ (params.new_name # None /\ params.new_path = None)
                        => /\ Reports("cert_path")
                           /\ result.cert_path = certs0[params.name].path

C7_Witness ==
    /\ Present /\ InInventory(params.name) /\ SameBodyModuloCR(params.name)
    /\ params.new_name # None /\ params.new_path # None
    /\ params.new_path # certs0[params.name].path
    /\ Reports("changed") /\ result.changed
    /\ Len(calls) = 1

\* C8: with name not in the inventory and new_name stored with cert's body
\* (carriage returns removed), detection completes as an update: no exception
\* escapes it and no upload is issued.
C8_RerunOfRename ==
    (Present /\ ~InInventory(params.name) /\ InInventory(params.new_name)
             /\ SameBodyModuloCR(params.new_name))
        => /\ result.kind # "crash"
           /\ \A i \in 1..Len(calls) : calls[i].op # "upload"

\* C9: a new_name of the inventory stored with a body that differs from cert
\* (carriage returns removed) fails with ConflictError and no mutating call,
\* whether or not name is in the inventory with cert's body.  Stated for the
\* invocations in which no exception escapes the detection step (the ones C8
\* does not already cover), and letting a failed remote read stand in for the
\* ConflictError: what is left is that no mutating call is issued.
C9_TargetConflict ==
    (Present /\ InInventory(params.new_name) /\ ~SameBodyModuloCR(params.new_name)
             /\ result.kind # "crash")
        => /\ result.kind = "fail"
           /\ result.error \in {"ConflictError", "RemoteServiceError"}
           /\ calls = <<>>

\* C10: with dup_ok=False in every invocation and no body stored twice at the
\* start, no body is ever stored under two names.
C10_NoDuplicates == NoDuplicateBodies(certs)

C10_Witness ==
    /\ Present /\ ~params.dup_ok
    /\ Reports("changed") /\ result.changed
    /\ Len(calls) = 1 /\ calls[1].op = "upload"
    /\ Len(orig_cert_names) >= 1
    /\ \E n \in DOMAIN certs \ {params.name} :
          StripCR(certs[n].body) = StripCR(params.cert)

====
